---------------------------- MODULE Spec2Model ----------------------------
(***************************************************************************)
(* Model of src/string/utils.rs: the unchecked byte primitives behind a    *)
(* fixed-capacity UTF-8 string (StaticString<N>): the UTF-8 scalar         *)
(* encoder, the two shifts over memmove, the two validators and the        *)
(* truncator.                                                              *)
(*                                                                         *)
(* The buffer is a sequence of Cap bytes; the byte at offset i of the Rust *)
(* array is bytes[i + 1].  A behaviour starts from a string holding valid  *)
(* UTF-8 in its first `size` bytes and applies the primitives to it.       *)
(***************************************************************************)
EXTENDS Integers, Sequences, FiniteSets

\* ------------------------------------------------------------- bounds

\* N, the capacity of the StaticString<N> under test.
Cap == 10
\* Strings of the initial states hold at most this many scalar values.
MaxChars == 3
\* Number of pseudo-random scalar values encoded besides the range edges.
NumSamples == 6
\* is_inside_boundary is called with sizes and limits in 0..MaxLimit.
MaxLimit == 4

\* ------------------------------------------------ program constants

TAG_CONT == 128
TAG_TWO_B == 192
TAG_THREE_B == 224
TAG_FOUR_B == 240
MAX_ONE_B == 128
MAX_TWO_B == 2048
MAX_THREE_B == 65536

\* ------------------------------------------------------- arithmetic

\* usize::saturating_sub
saturating_sub(a, b) == IF a >= b THEN a - b ELSE 0

\* `x >> n` on u32
Shr(x, n) == x \div (2 ^ n)

RECURSIVE BitAnd(_, _)
\* `a & b` on unsigned integers
BitAnd(a, b) ==
  IF a = 0 \/ b = 0 THEN 0
  ELSE (IF a % 2 = 1 /\ b % 2 = 1 THEN 1 ELSE 0) + 2 * BitAnd(a \div 2, b \div 2)

RECURSIVE BitOr(_, _)
\* `a | b` on unsigned integers
BitOr(a, b) ==
  IF a = 0 THEN b
  ELSE IF b = 0 THEN a
  ELSE (IF a % 2 = 1 \/ b % 2 = 1 THEN 1 ELSE 0) + 2 * BitOr(a \div 2, b \div 2)

\* IntoLossy<u8> for u32 / usize: `self as u8` keeps the low eight bits.
into_lossy(x) == x % 256

\* ------------------------------------------------------ the encoder

\* char::len_utf8, as the debug assertions of the encoder use it.
len_utf8(code) ==
  IF code < MAX_ONE_B THEN 1
  ELSE IF code < MAX_TWO_B THEN 2
  ELSE IF code < MAX_THREE_B THEN 3
  ELSE 4

\* encoded_bytes with the `& 0x3F` masks of the continuation bytes left out.
encoded_bytes_unmasked(code) ==
  IF code < MAX_ONE_B THEN
    << into_lossy(code) >>
  ELSE IF code < MAX_TWO_B THEN
    << BitOr(into_lossy(BitAnd(Shr(code, 6), 31)), TAG_TWO_B),
       BitOr(into_lossy(code), TAG_CONT) >>
  ELSE IF code < MAX_THREE_B THEN
    << BitOr(into_lossy(BitAnd(Shr(code, 12), 15)), TAG_THREE_B),
       BitOr(into_lossy(Shr(code, 6)), TAG_CONT),
       BitOr(into_lossy(code), TAG_CONT) >>
  ELSE
    << BitOr(into_lossy(BitAnd(Shr(code, 18), 7)), TAG_FOUR_B),
       BitOr(into_lossy(Shr(code, 12)), TAG_CONT),
       BitOr(into_lossy(Shr(code, 6)), TAG_CONT),
       BitOr(into_lossy(code), TAG_CONT) >>

\* The bytes the four branches of encode_char_utf8_unchecked store at
\* dst[0], dst[1], ...
encoded_bytes(code) ==
  IF code < MAX_ONE_B THEN
    << into_lossy(code) >>
  ELSE IF code < MAX_TWO_B THEN
    << BitOr(into_lossy(BitAnd(Shr(code, 6), 31)), TAG_TWO_B),
       BitOr(into_lossy(BitAnd(code, 63)), TAG_CONT) >>
  ELSE IF code < MAX_THREE_B THEN
    << BitOr(into_lossy(BitAnd(Shr(code, 12), 15)), TAG_THREE_B),
       BitOr(into_lossy(BitAnd(Shr(code, 6), 63)), TAG_CONT),
       BitOr(into_lossy(BitAnd(code, 63)), TAG_CONT) >>
  ELSE
    << BitOr(into_lossy(BitAnd(Shr(code, 18), 7)), TAG_FOUR_B),
       BitOr(into_lossy(BitAnd(Shr(code, 12), 63)), TAG_CONT),
       BitOr(into_lossy(BitAnd(Shr(code, 6), 63)), TAG_CONT),
       BitOr(into_lossy(BitAnd(code, 63)), TAG_CONT) >>

\* `*dst.get_unchecked_mut(j) = w[j]` for every j, with dst = buf[index..].
\* A store past the end of the array does not land in the array.
store_at(buf, index, w) ==
  [i \in 1..Len(buf) |->
     IF i - 1 >= index /\ i - 1 < index + Len(w) THEN w[i - index] ELSE buf[i]]

\* encode_char_utf8_unchecked(s, ch, index) on a string with buffer buf and
\* length len, in a build with (dbg) or without debug assertions.
encode_char_utf8_unchecked(buf, len, code, index, dbg) ==
  IF dbg /\ ~(len_utf8(code) + index <= Len(buf)) THEN
    [panic |-> TRUE, bytes |-> buf]
  ELSE IF dbg /\ ~(len_utf8(code) + len <= Len(buf)) THEN
    [panic |-> TRUE, bytes |-> buf]
  ELSE
    [panic |-> FALSE, bytes |-> store_at(buf, index, encoded_bytes(code))]

\* ------------------------------------------------------- the shifts

RECURSIVE copy_ascending(_, _, _, _, _, _)
copy_ascending(s, from, to, len, oob, j) ==
  IF j >= len \/ to + j >= Len(s) THEN s
  ELSE copy_ascending(
         [s EXCEPT ![to + j + 1] = IF from + j < Len(s) THEN s[from + j + 1] ELSE oob],
         from, to, len, oob, j + 1)

\* copy as a memcpy that goes byte by byte from the low address up: wrong
\* for a destination that overlaps the source from above.
copy_memcpy(s, from, to, len, oob) == copy_ascending(s, from, to, len, oob, 0)

\* core::ptr::copy(s + from, s + to, len): memmove.  The source is read
\* whole before the destination is written.  A read past the end of the
\* array yields the byte oob (whatever lies behind the array); a write past
\* the end does not land in the array.
copy(s, from, to, len, oob) ==
  [i \in 1..Len(s) |->
     IF i - 1 >= to /\ i - 1 < to + len
       THEN (IF from + (i - 1 - to) < Len(s) THEN s[from + (i - 1 - to) + 1] ELSE oob)
       ELSE s[i]]

\* shift_unchecked with the source pointer left at the start of the array
\* (`.add(from)` forgotten).
shift_unchecked_no_offset(s, from, to, len, dbg, oob) ==
  IF dbg /\ ~(to + len <= Len(s) /\ from + len <= Len(s)) THEN
    [panic |-> TRUE, bytes |-> s]
  ELSE
    [panic |-> FALSE,
     bytes |-> [i \in 1..Len(s) |->
                  IF i - 1 >= to /\ i - 1 < to + len
                    THEN (IF i - 1 - to < Len(s) THEN s[i - to] ELSE oob)
                    ELSE s[i]]]

\* shift_unchecked(s, from, to, len)
shift_unchecked(s, from, to, len, dbg, oob) ==
  IF dbg /\ ~(to + len <= Len(s) /\ from + len <= Len(s)) THEN
    [panic |-> TRUE, bytes |-> s]
  ELSE
    [panic |-> FALSE, bytes |-> copy(s, from, to, len, oob)]

\* str_is_char_boundary taking every index from the length on for a boundary.
str_is_char_boundary_past_end(s, idx) ==
  IF idx = 0 THEN [ok |-> TRUE, reads |-> {}]
  ELSE IF idx >= Len(s) THEN [ok |-> TRUE, reads |-> {}]
  ELSE LET b == s[idx + 1]
           i8 == IF b >= 128 THEN b - 256 ELSE b
       IN  [ok |-> i8 >= -64, reads |-> {idx}]

\* str::is_char_boundary(idx) on the slice s: whether idx is a boundary, and
\* the offsets of s it read to decide.
str_is_char_boundary(s, idx) ==
  IF idx = 0 THEN [ok |-> TRUE, reads |-> {}]
  ELSE IF idx >= Len(s) THEN [ok |-> idx = Len(s), reads |-> {}]
  ELSE LET b == s[idx + 1]
           i8 == IF b >= 128 THEN b - 256 ELSE b
       IN  [ok |-> i8 >= -64, reads |-> {idx}]

\* StaticString::as_str: the first len bytes of the buffer.
as_str(buf, len) == SubSeq(buf, 1, len)

\* The length shift_right_unchecked passes to shift_unchecked.
shift_right_len(len, from, to) == saturating_sub(len, from)

\* shift_right_unchecked(s, from, to)
shift_right_unchecked(buf, len, from, to, dbg, oob) ==
  LET n == shift_right_len(len, from, to) IN
  IF dbg /\ ~(from <= to /\ to + n <= Len(buf)) THEN
    [panic |-> TRUE, bytes |-> buf]
  ELSE IF dbg /\ ~str_is_char_boundary(as_str(buf, len), from).ok THEN
    [panic |-> TRUE, bytes |-> buf]
  ELSE shift_unchecked(buf, from, to, n, dbg, oob)

\* The length shift_left_unchecked passes to shift_unchecked.
shift_left_len(len, from, to) == saturating_sub(len, to)

\* shift_left_unchecked(s, from, to)
shift_left_unchecked(buf, len, from, to, dbg, oob) ==
  IF dbg /\ ~(to <= from /\ from <= len) THEN
    [panic |-> TRUE, bytes |-> buf]
  ELSE IF dbg /\ ~str_is_char_boundary(as_str(buf, len), from).ok THEN
    [panic |-> TRUE, bytes |-> buf]
  ELSE shift_unchecked(buf, from, to, shift_left_len(len, from, to), dbg, oob)

\* --------------------------------------------------- the validators

\* Option::filter on Some(()): the predicate decides whether it stays Some.
filter_some(keep) == IF keep THEN "Some" ELSE "None"

\* Option::ok_or(err)
ok_or(opt, err) == IF opt = "Some" THEN "Ok" ELSE err

\* is_inside_boundary with `<` for `<=`.
is_inside_boundary_strict(sz, limit) == ok_or(filter_some(sz < limit), "OutOfBounds")

\* is_inside_boundary(size, limit)
is_inside_boundary(sz, limit) == ok_or(filter_some(sz <= limit), "OutOfBounds")

\* is_char_boundary(s, idx): the result and the offsets read.
is_char_boundary(buf, len, idx) ==
  LET r == str_is_char_boundary(as_str(buf, len), idx) IN
  [res |-> IF r.ok THEN "Ok" ELSE "Utf8", reads |-> r.reads]

\* ---------------------------------------------------- the truncator

\* The scan of truncate_str as an `if`: one step and no loop.
scan_back_once(slice, index) == index

RECURSIVE scan_back(_, _)
\* The while loop of truncate_str: step index down to a char boundary.
scan_back(slice, index) ==
  IF str_is_char_boundary(slice, index).ok THEN index
  ELSE scan_back(slice, saturating_sub(index, 1))

\* The scan of truncate_str starting one byte too low.
scan_start_low(sz) == saturating_sub(sz, 2)

\* Where the backward scan of truncate_str starts.
scan_start(sz) == saturating_sub(sz, 1)

\* truncate_str(slice, size)
truncate_str(slice, sz) ==
  IF str_is_char_boundary(slice, sz).ok THEN SubSeq(slice, 1, sz)
  ELSE IF sz < Len(slice) THEN SubSeq(slice, 1, scan_back(slice, scan_start(sz)))
  ELSE slice

\* ------------------------------------------------------- the state

VARIABLES
  bytes,    \* the string's array of Cap bytes (as_mut_bytes)
  size,     \* the string's logical length (the `size` field)
  debug,    \* whether the build has debug assertions
  pc,       \* "idle", "returned" (the call came back),
            \* "panicked" (a debug assertion failed), "done" (the caller
            \* fixed the length after a shift)
  call,     \* the last call: its name and arguments
  ret,      \* what the last call returned
  old,      \* the array before the last call
  oldsize   \* the logical length before the last call

vars == << bytes, size, debug, pc, call, ret, old, oldsize >>

\* The texts the strings are built from: UTF-8 literals of one to four
\* bytes, "a", "b", U+00E9, U+20AC and U+1F914 (the tests' thinking face).
Alphabet == { <<97>>, <<98>>, <<195, 169>>, <<226, 130, 172>>, <<240, 159, 164, 148>> }

RECURSIVE Concat(_)
Concat(ws) == IF ws = << >> THEN << >> ELSE Head(ws) \o Concat(Tail(ws))

\* try_from_str on a literal of at most MaxChars scalar values that fits.
Texts ==
  { t \in { Concat(ws) : ws \in UNION { [1..n -> Alphabet] : n \in 0..MaxChars } } :
      Len(t) <= Cap }

\* The bytes behind the logical length are unspecified: zero in a fresh
\* string (fill 0), the remains of an earlier, longer text otherwise.
TailByte(fill, i) == IF fill = 0 THEN 0 ELSE 65 + i

\* What a read behind the array may find in a build without assertions.
OobBytes == {0, 255}

\* The scalar values encoded: the edges of the four ranges and of the
\* surrogate gap, the tests' two characters, and NumSamples others.
Chars ==
  {0, 97, 127, 128, 233, 2047, 2048, 8364, 55295, 57344, 65535, 65536, 129300, 1114111}
  \cup { c \in { (i * 65599 + 977) % 1114112 : i \in 1..NumSamples } :
           c < 55296 \/ c > 57343 }

NoCall == [fn |-> "none", a |-> 0, b |-> 0, c |-> 0]
NoRet == [res |-> "none", val |-> << >>, reads |-> {}]

Init ==
  \E t \in Texts, fill \in {0, 1}, d \in BOOLEAN :
    /\ bytes = [i \in 1..Cap |-> IF i <= Len(t) THEN t[i] ELSE TailByte(fill, i - 1)]
    /\ size = Len(t)
    /\ debug = d
    /\ pc = "idle"
    /\ call = NoCall
    /\ ret = NoRet
    /\ old = [i \in 1..Cap |-> IF i <= Len(t) THEN t[i] ELSE TailByte(fill, i - 1)]
    /\ oldsize = Len(t)

\* A caller encodes ch at index; the array has room for it from index on.
EncodeChar ==
  \E ch \in Chars, index \in 0..Cap :
    /\ pc = "idle"
    /\ index + len_utf8(ch) <= Cap
    /\ LET r == encode_char_utf8_unchecked(bytes, size, ch, index, debug) IN
         /\ bytes' = r.bytes
         /\ pc' = IF r.panic THEN "panicked" ELSE "returned"
    /\ call' = [fn |-> "encode_char_utf8_unchecked", a |-> ch, b |-> index, c |-> len_utf8(ch)]
    /\ ret' = NoRet
    /\ old' = bytes
    /\ oldsize' = size
    /\ UNCHANGED << size, debug >>

\* A caller opens a gap: from <= to, from a char boundary, the tail fits.
ShiftRight ==
  \E from \in 0..Cap, to \in 0..Cap, oob \in OobBytes :
    /\ pc = "idle"
    /\ from <= to
    /\ from <= size
    /\ str_is_char_boundary(as_str(bytes, size), from).ok
    /\ to + (size - from) <= Cap
    /\ LET r == shift_right_unchecked(bytes, size, from, to, debug, oob) IN
         /\ bytes' = r.bytes
         /\ pc' = IF r.panic THEN "panicked" ELSE "returned"
    /\ call' = [fn |-> "shift_right_unchecked", a |-> from, b |-> to,
                c |-> shift_right_len(size, from, to)]
    /\ ret' = NoRet
    /\ old' = bytes
    /\ oldsize' = size
    /\ UNCHANGED << size, debug >>

\* A caller closes a gap: to <= from <= len, from a char boundary.
ShiftLeft ==
  \E from \in 0..Cap, to \in 0..Cap, oob \in OobBytes :
    /\ pc = "idle"
    /\ to <= from
    /\ from <= size
    /\ str_is_char_boundary(as_str(bytes, size), from).ok
    /\ LET r == shift_left_unchecked(bytes, size, from, to, debug, oob) IN
         /\ bytes' = r.bytes
         /\ pc' = IF r.panic THEN "panicked" ELSE "returned"
    /\ call' = [fn |-> "shift_left_unchecked", a |-> from, b |-> to,
                c |-> shift_left_len(size, from, to)]
    /\ ret' = NoRet
    /\ old' = bytes
    /\ oldsize' = size
    /\ UNCHANGED << size, debug >>

\* `ls.size += to - from` after a shift right.
GrowSize ==
  /\ pc = "returned"
  /\ call.fn = "shift_right_unchecked"
  /\ size' = size + (call.b - call.a)
  /\ pc' = "done"
  /\ UNCHANGED << bytes, debug, call, ret, old, oldsize >>

\* `ls.size -= from - to` after a shift left.
ShrinkSize ==
  /\ pc = "returned"
  /\ call.fn = "shift_left_unchecked"
  /\ size' = size - (call.a - call.b)
  /\ pc' = "done"
  /\ UNCHANGED << bytes, debug, call, ret, old, oldsize >>

IsInsideBoundary ==
  \E sz \in 0..MaxLimit, limit \in 0..MaxLimit :
    /\ pc = "idle"
    /\ call' = [fn |-> "is_inside_boundary", a |-> sz, b |-> limit, c |-> 0]
    /\ ret' = [res |-> is_inside_boundary(sz, limit), val |-> << >>, reads |-> {}]
    /\ old' = bytes
    /\ oldsize' = size
    /\ pc' = "returned"
    /\ UNCHANGED << bytes, size, debug >>

IsCharBoundary ==
  \E idx \in 0..(Cap + 2) :
    /\ pc = "idle"
    /\ call' = [fn |-> "is_char_boundary", a |-> idx, b |-> 0, c |-> 0]
    /\ LET r == is_char_boundary(bytes, size, idx) IN
         ret' = [res |-> r.res, val |-> << >>, reads |-> r.reads]
    /\ old' = bytes
    /\ oldsize' = size
    /\ pc' = "returned"
    /\ UNCHANGED << bytes, size, debug >>

TruncateStr ==
  \E n \in 0..(Cap + 2) :
    /\ pc = "idle"
    /\ call' = [fn |-> "truncate_str", a |-> n, b |-> 0, c |-> 0]
    /\ ret' = [res |-> "slice", val |-> truncate_str(as_str(bytes, size), n), reads |-> {}]
    /\ old' = bytes
    /\ oldsize' = size
    /\ pc' = "returned"
    /\ UNCHANGED << bytes, size, debug >>

Next ==
  \/ EncodeChar
  \/ ShiftRight
  \/ ShiftLeft
  \/ GrowSize
  \/ ShrinkSize
  \/ IsInsideBoundary
  \/ IsCharBoundary
  \/ TruncateStr

Spec == Init /\ [][Next]_vars

TypeOK ==
  /\ Len(bytes) = Cap
  /\ \A i \in 1..Cap : bytes[i] \in 0..255
  /\ size \in 0..Cap
  /\ pc \in {"idle", "returned", "panicked", "done"}

\* ------------------------------------------- what the claims speak of

Min(a, b) == IF a <= b THEN a ELSE b

\* A continuation byte: the two high bits are 10.
IsCont(b) == b \in 128..191

\* A UTF-8 char boundary of s: 0, the length of s, or an offset whose byte
\* is not a continuation byte.
CharBoundary(s, i) ==
  \/ i = 0
  \/ i = Len(s)
  \/ (i > 0 /\ i < Len(s) /\ ~IsCont(s[i + 1]))

\* The scalar value a whole UTF-8 sequence w decodes to, -1 when w is not
\* the encoding of one scalar value (overlong forms, surrogates and values
\* above U+10FFFF are not).
Decode(w) ==
  IF Len(w) = 1 /\ w[1] < 128 THEN w[1]
  ELSE IF Len(w) = 2 /\ w[1] \in 192..223 /\ IsCont(w[2]) THEN
    LET v == (w[1] - 192) * 64 + (w[2] - 128) IN
    IF v >= 128 THEN v ELSE -1
  ELSE IF Len(w) = 3 /\ w[1] \in 224..239 /\ IsCont(w[2]) /\ IsCont(w[3]) THEN
    LET v == (w[1] - 224) * 4096 + (w[2] - 128) * 64 + (w[3] - 128) IN
    IF v >= 2048 /\ ~(v \in 55296..57343) THEN v ELSE -1
  ELSE IF Len(w) = 4 /\ w[1] \in 240..247 /\ IsCont(w[2]) /\ IsCont(w[3]) /\ IsCont(w[4]) THEN
    LET v == (w[1] - 240) * 262144 + (w[2] - 128) * 4096 + (w[3] - 128) * 64 + (w[4] - 128) IN
    IF v >= 65536 /\ v <= 1114111 THEN v ELSE -1
  ELSE -1

\* The length of the sequence a leading byte announces, 0 for a byte that
\* leads nothing.
LeadWidth(b) ==
  IF b < 128 THEN 1
  ELSE IF b \in 192..223 THEN 2
  ELSE IF b \in 224..239 THEN 3
  ELSE IF b \in 240..247 THEN 4
  ELSE 0

RECURSIVE ValidUtf8(_)
\* s is a concatenation of encodings of scalar values.
ValidUtf8(s) ==
  IF s = << >> THEN TRUE
  ELSE LET w == LeadWidth(s[1]) IN
       /\ w > 0
       /\ w <= Len(s)
       /\ Decode(SubSeq(s, 1, w)) >= 0
       /\ ValidUtf8(SubSeq(s, w + 1, Len(s)))

IsPrefix(r, s) == Len(r) <= Len(s) /\ r = SubSeq(s, 1, Len(r))

\* The live text before the last call.
OldStr == as_str(old, oldsize)

\* The strings of the model hold valid UTF-8 before every call.
OldStrValid == ValidUtf8(OldStr)

\* ------------------------------------------------------- the claims

\* C1: truncate_str(s, n) is a byte prefix of s, of length at most
\* min(n, len(s)), that ends on a char boundary of s and is valid UTF-8.
C1_TruncateIsValidPrefix ==
  call.fn = "truncate_str" =>
    LET s == OldStr
        n == call.a
        r == ret.val
    IN  /\ IsPrefix(r, s)
        /\ Len(r) <= Min(n, Len(s))
        /\ CharBoundary(s, Len(r))
        /\ ValidUtf8(r)

\* A size inside a multi-byte character was cut back to a non-empty prefix.
C1_Witness ==
  /\ call.fn = "truncate_str"
  /\ call.a < oldsize
  /\ Len(ret.val) < call.a
  /\ Len(ret.val) > 0

\* C2: truncate_str(s, n) is the longest such prefix: n bytes when n is a
\* char boundary of s, all of s when n >= len(s), else the prefix ending at
\* the greatest char boundary below n.
C2_TruncateIsLongest ==
  call.fn = "truncate_str" =>
    LET s == OldStr
        n == call.a
        r == ret.val
    IN  /\ CharBoundary(s, n) => Len(r) = n
        /\ n >= Len(s) => r = s
        /\ (~CharBoundary(s, n) /\ n < Len(s)) =>
             /\ Len(r) < n
             /\ CharBoundary(s, Len(r))
             /\ \A j \in (Len(r) + 1)..n : ~CharBoundary(s, j)
        /\ \A j \in 0..Min(n, Len(s)) : CharBoundary(s, j) => j <= Len(r)

\* The scan stepped back three bytes, from the last byte of a four-byte
\* character to its first.
C2_Witness ==
  /\ call.fn = "truncate_str"
  /\ call.a < oldsize
  /\ Len(ret.val) + 3 = call.a

\* The effect C3 describes: the k bytes at [index, index + k) decode to the
\* scalar value and every other byte of the array is as before.
EncodeEffect ==
  LET c == call.a
      index == call.b
      k == IF c < 128 THEN 1 ELSE IF c < 2048 THEN 2 ELSE IF c < 65536 THEN 3 ELSE 4
  IN  /\ pc = "returned"
      /\ call.c = k
      /\ Decode(SubSeq(bytes, index + 1, index + k)) = c
      /\ \A i \in 0..(Cap - 1) : (i < index \/ i >= index + k) => bytes[i + 1] = old[i + 1]

\* C3 as stated: for every scalar value and every index with
\* index + k <= capacity, the call writes exactly the k bytes at
\* [index, index + k), which decode to the scalar value.
C3_EncodeAnyLength ==
  call.fn = "encode_char_utf8_unchecked" => EncodeEffect

\* C3 amended: the same, for calls that also leave room behind the logical
\* length, len + k <= capacity, as the second debug assertion demands.
C3_EncodeWithRoom ==
  (call.fn = "encode_char_utf8_unchecked" /\ oldsize + call.c <= Cap) => EncodeEffect

\* A four-byte scalar value was written behind the start of the array.
C3_Witness ==
  /\ call.fn = "encode_char_utf8_unchecked"
  /\ pc = "returned"
  /\ call.a >= 65536
  /\ call.b > 0
  /\ oldsize + call.c <= Cap
  /\ bytes # old

\* C4: after shift_right_unchecked(s, from, to) the bytes that were at
\* [from, len) are at [to, to + (len - from)) and every byte outside that
\* range is unchanged.
C4_ShiftRightMovesTail ==
  call.fn = "shift_right_unchecked" =>
    LET from == call.a
        to == call.b
        m == oldsize - from
    IN  /\ pc # "panicked"
        /\ \A i \in 0..(m - 1) : bytes[to + i + 1] = old[from + i + 1]
        /\ \A i \in 0..(Cap - 1) : (i < to \/ i >= to + m) => bytes[i + 1] = old[i + 1]

\* A tail was moved right onto itself: source and destination overlap.
C4_Witness ==
  /\ call.fn = "shift_right_unchecked"
  /\ pc = "returned"
  /\ call.a < call.b
  /\ call.b < oldsize
  /\ bytes # old

\* C5: shift_left_unchecked(s, from, to) moves the bytes that were at
\* [from, len) to to, and changes no byte outside [to, to + (len - from)).
C5_ShiftLeftFrame ==
  call.fn = "shift_left_unchecked" =>
    LET from == call.a
        to == call.b
        m == oldsize - from
    IN  /\ pc # "panicked"
        /\ \A i \in 0..(m - 1) : bytes[to + i + 1] = old[from + i + 1]
        /\ \A i \in 0..(Cap - 1) : (i < to \/ i >= to + m) => bytes[i + 1] = old[i + 1]

\* C6: shift_right_unchecked(s, k, k) and shift_left_unchecked(s, k, k)
\* leave all bytes of the array and the logical length unchanged.
C6_ShiftNop ==
  (call.fn \in {"shift_right_unchecked", "shift_left_unchecked"} /\ call.a = call.b) =>
    /\ pc # "panicked"
    /\ bytes = old
    /\ size = oldsize

\* A shift left by nothing, in the middle of a text.
C6_Witness ==
  /\ call.fn = "shift_left_unchecked"
  /\ pc = "returned"
  /\ call.a = call.b
  /\ call.a > 0
  /\ call.a < oldsize

\* C7: is_char_boundary(s, idx) is Ok iff idx = 0, idx = len, or idx < len
\* and the byte at idx is no continuation byte; else it is the Utf8 error,
\* also for idx > len; and it reads no byte outside the valid prefix.
C7_IsCharBoundary ==
  call.fn = "is_char_boundary" =>
    LET s == OldStr
        idx == call.a
        good == \/ idx = 0
                \/ idx = Len(s)
                \/ (idx < Len(s) /\ ~IsCont(s[idx + 1]))
    IN  /\ ret.res = "Ok" <=> good
        /\ ~good => ret.res = "Utf8"
        /\ idx > Len(s) => ret.res = "Utf8"
        /\ ret.reads \subseteq 0..(Len(s) - 1)

\* An index inside a multi-byte character was refused.
C7_Witness ==
  /\ call.fn = "is_char_boundary"
  /\ ret.res = "Utf8"
  /\ call.a < oldsize
  /\ ret.reads = {call.a}

\* C8: is_inside_boundary(size, limit) is Ok iff size <= limit and the
\* OutOfBounds error otherwise.
C8_IsInsideBoundary ==
  call.fn = "is_inside_boundary" =>
    /\ ret.res = "Ok" <=> call.a <= call.b
    /\ call.a > call.b => ret.res = "OutOfBounds"
    /\ call.a = call.b => ret.res = "Ok"

\* The size one above the limit was refused.
C8_Witness ==
  /\ call.fn = "is_inside_boundary"
  /\ call.a = call.b + 1
  /\ ret.res = "OutOfBounds"

\* C9: for char boundaries to <= from <= len, shift_left_unchecked(s, from,
\* to) followed by len -= from - to comes back with the text s[0, to)
\* followed by s[from, len).
C9_RemoveByComposition ==
  (call.fn = "shift_left_unchecked" /\ CharBoundary(OldStr, call.b)) =>
    /\ pc # "panicked"
    /\ pc = "done" =>
         as_str(bytes, size) = SubSeq(old, 1, call.b) \o SubSeq(old, call.a + 1, oldsize)

\* C10: the length shift_left_unchecked passes to shift_unchecked keeps the
\* source range and the destination range within the capacity.
C10_ShiftLeftInBounds ==
  call.fn = "shift_left_unchecked" =>
    /\ call.b + call.c <= Cap
    /\ call.a + call.c <= Cap

=============================================================================
